---- MODULE Spec2Model ----
(***************************************************************************)
(* catchy: cognitive-complexity analyzer.                                  *)
(*                                                                         *)
(* The model covers the complexity calculator (CognitiveComplexity), the   *)
(* language extractors (CppParser, PythonParser), the orchestrator         *)
(* (Analyzer::analyze_content / find_function_node), the registry of       *)
(* extractors (ParserFactory) and the runs over files and directories      *)
(* (Analyzer::analyze_file / analyze_directory, main).                     *)
(*                                                                         *)
(* A syntax tree of the tree-sitter provider is a sequence of nodes in     *)
(* pre-order (document order); every node carries its type tag, its depth, *)
(* the field name under which its parent holds it, its start row and, for  *)
(* a definition, the shape and the text of its name.                       *)
(***************************************************************************)
EXTENDS Integers, Sequences, FiniteSets, TLC

VARIABLES
    tree,        \* the parsed syntax tree (TSTree), nodes in pre-order
    root_node,   \* the node handed to calculate
    mode,        \* position of the running operation
    stack,       \* call stack of analyze_control_flow (one frame per call)
    result,      \* the ComplexityResult that calculate passes by reference
    returned,    \* value returned by calculate ("none" before it returns)
    earlier,     \* the results the caller holds from earlier calls of
                 \* calculate on the same CognitiveComplexity object
    language,    \* language id analyze_content is called with
    complexity_threshold_,  \* Analyzer::complexity_threshold_
    amode,       \* position of analyze_content
    functions,   \* the units parse_functions yielded for the file
    file_results, \* the vector analyze_content returns
    parsers_,    \* ParserFactory::parsers_: language name -> prototype object
    extensions_, \* ParserFactory::extensions_: extension -> language name
    objects,     \* the extractor objects registered with or handed out by
                 \* the factory; the id of an object is its index
    last_call,   \* the last call made on the factory, with what it returned
    language_,   \* Analyzer::language_ ("": infer from the extension)
    ignore_patterns_,  \* Analyzer::ignore_patterns_
    input,       \* main: what the input path is, and the output format
    listing,     \* the files list_files / list_git_files return, in order
    bmode,       \* position of main
    next_file,   \* index of the loop over the listed files
    batch_results,  \* the results vector of the running analysis
    last_analysis,  \* the last call of analyze_file, with what it returned
    exit_status  \* the status main returns (-1 while it runs)

calcVars == <<root_node, mode, stack, result, returned, earlier>>
anVars == <<language, complexity_threshold_, amode, functions, file_results>>
facVars == <<parsers_, extensions_, objects, last_call>>
batVars == <<language_, ignore_patterns_, input, listing, bmode, next_file,
             batch_results, last_analysis, exit_status>>
vars == <<tree, calcVars, anVars, facVars, batVars>>

\* the registry before any call: both maps empty (ParserFactory() = default)
NoCall == [op |-> "none", arg |-> <<>>, ret |-> 0]

FactoryInit ==
    /\ parsers_ = [l \in {} |-> 0]
    /\ extensions_ = [e \in {} |-> ""]
    /\ objects = <<>>
    /\ last_call = NoCall

NoFile ==
    [path |-> <<>>, readable |-> FALSE, parses |-> FALSE, written_in |-> "",
     tree |-> <<>>]

NoAnalysis == [n |-> 0, file |-> NoFile, results |-> <<>>, raised |-> FALSE]

\* the Analyzer before main configures it (language_ empty, no patterns)
AnalyzerInit ==
    /\ language_ = ""
    /\ ignore_patterns_ = {}
    /\ input = [kind |-> "none", format |-> "text"]
    /\ bmode = "start"
    /\ next_file = 0
    /\ batch_results = <<>>
    /\ last_analysis = NoAnalysis
    /\ exit_status = -1

\* no run of main in this specification
NoMain ==
    /\ AnalyzerInit
    /\ listing = <<>>

(***************************************************************************)
(* Bounds of the model.                                                    *)
(***************************************************************************)
MaxCalcNodes == 5
MaxFileNodes == 6
MaxThreshold == 5

NullNode == 0

(***************************************************************************)
(* Syntax Tree Provider (tree-sitter API).                                 *)
(***************************************************************************)
\* declarator: the chain of node types from the "declarator" field of a
\* C-family definition down to its leaf (<<>>: no such field); name: the text
\* of the identifier at the end of that chain, or of the "name" field
MkNode(ty, d, fld, decl, nm, r) ==
    [type |-> ty, depth |-> d, field |-> fld, declarator |-> decl,
     name |-> nm, row |-> r]

ts_node_is_null(n) == n = NullNode

ts_node_type(t, n) == t[n].type

ts_node_parent(t, n) ==
    IF n = NullNode \/ t[n].depth = 0
    THEN NullNode
    ELSE CHOOSE j \in 1..(n - 1) :
            /\ t[j].depth = t[n].depth - 1
            /\ \A k \in (j + 1)..(n - 1) : t[k].depth # t[n].depth - 1

ChildSet(t, n) == {j \in (n + 1)..Len(t) : ts_node_parent(t, j) = n}

ts_node_child_count(t, n) == Cardinality(ChildSet(t, n))

\* i is 0-based, as in the tree-sitter API
ts_node_child(t, n, i) ==
    IF i < 0 \/ i >= ts_node_child_count(t, n)
    THEN NullNode
    ELSE CHOOSE j \in ChildSet(t, n) :
            Cardinality({k \in ChildSet(t, n) : k < j}) = i

ts_node_child_by_field_name(t, n, fld) ==
    IF \E j \in ChildSet(t, n) : t[j].field = fld
    THEN CHOOSE j \in ChildSet(t, n) :
            /\ t[j].field = fld
            /\ \A k \in ChildSet(t, n) : t[k].field = fld => j <= k
    ELSE NullNode

ts_node_start_point(t, n) == [row |-> t[n].row]

\* proper ancestors of n, and the nodes of the subtree rooted at n
Ancestors(t, n) ==
    {a \in 1..Len(t) : a < n /\ t[a].depth < t[n].depth
                       /\ \A k \in (a + 1)..n : t[k].depth > t[a].depth}

Subtree(t, n) == {n} \cup {j \in 1..Len(t) : n \in Ancestors(t, j)}

(***************************************************************************)
(* CognitiveComplexity: helper predicates and the four increment steps.    *)
(***************************************************************************)
is_control_structure_CountsExpressions(type) ==
    type \in {"if_statement", "for_statement", "while_statement",
              "do_statement", "catch_clause", "case_statement",
              "for_range_loop", "elif_clause", "else_clause",
              "binary_expression"}

is_control_structure(type) ==
    type \in {"if_statement", "for_statement", "while_statement",
              "do_statement", "catch_clause", "case_statement",
              "for_range_loop", "elif_clause", "else_clause"}

increases_nesting_level_NoRangeLoop(type) ==
    type \in {"if_statement", "for_statement", "while_statement",
              "do_statement", "catch_clause"}

increases_nesting_level(type) ==
    type \in {"if_statement", "for_statement", "while_statement",
              "do_statement", "catch_clause", "for_range_loop"}

EmptyResult == [total_complexity |-> 0, nesting_level |-> 0, factors |-> <<>>]

increment_for_nesting_AddsOne(res, nesting_level, reason, line_number) ==
    [res EXCEPT !.total_complexity = @ + 1,
                !.factors = Append(@, [description |-> reason,
                                       increment |-> nesting_level,
                                       line_number |-> line_number])]

increment_for_nesting(res, nesting_level, reason, line_number) ==
    [res EXCEPT !.total_complexity = @ + nesting_level,
                !.factors = Append(@, [description |-> reason,
                                       increment |-> nesting_level,
                                       line_number |-> line_number])]

increment_for_structural_AddsTwo(res, reason, line_number) ==
    [res EXCEPT !.total_complexity = @ + 2,
                !.factors = Append(@, [description |-> reason,
                                       increment |-> 2,
                                       line_number |-> line_number])]

increment_for_structural(res, reason, line_number) ==
    [res EXCEPT !.total_complexity = @ + 1,
                !.factors = Append(@, [description |-> reason,
                                       increment |-> 1,
                                       line_number |-> line_number])]

increment_for_hybrid(res, reason, line_number) ==
    [res EXCEPT !.total_complexity = @ + 1,
                !.factors = Append(@, [description |-> reason,
                                       increment |-> 1,
                                       line_number |-> line_number])]

(***************************************************************************)
(* analyze_control_flow as a stack machine.  A frame is one activation:    *)
(* node, the position in the body of the function (pc), the loop index i   *)
(* of the child loop, the local is_else_if, and entry_level, the value of  *)
(* result.nesting_level when the call was made.                            *)
(***************************************************************************)
Frame(n, lvl) ==
    [node |-> n, pc |-> "enter", i |-> 0, is_else_if |-> FALSE,
     entry_level |-> lvl]

Top(stk) == stk[Len(stk)]
Pop(stk) == SubSeq(stk, 1, Len(stk) - 1)
SetTop(stk, f) == [stk EXCEPT ![Len(stk)] = f]

line_number_of(t, n) == ts_node_start_point(t, n).row + 1

\* lines 88-99: is the function_definition n nested in another one
is_nested(t, n) ==
    \E a \in Ancestors(t, n) : ts_node_type(t, a) = "function_definition"

is_else_if_node_OnlyElse(t, n) ==
    /\ ts_node_type(t, n) = "if_statement"
    /\ ~ts_node_is_null(ts_node_parent(t, n))
    /\ ts_node_type(t, ts_node_parent(t, n)) = "else_clause"

\* lines 116-126: a conditional directly under an else/elif clause
is_else_if_node(t, n) ==
    /\ ts_node_type(t, n) = "if_statement"
    /\ ~ts_node_is_null(ts_node_parent(t, n))
    /\ ts_node_type(t, ts_node_parent(t, n)) \in {"else_clause", "elif_clause"}

\* lines 66-130: null check, nested-function skip, base increment
EnterStep(t, stk, res) ==
    LET f == Top(stk)
        n == f.node
    IN  IF ts_node_is_null(n)
        THEN [stack |-> Pop(stk), result |-> res]
        ELSE IF ts_node_type(t, n) = "function_definition"
        THEN LET body == ts_node_child_by_field_name(t, n, "body")
             IN  IF ~is_nested(t, n) /\ ~ts_node_is_null(body)
                 THEN [stack |-> Append(SetTop(stk, [f EXCEPT !.pc = "fn_return"]),
                                        Frame(body, res.nesting_level)),
                       result |-> res]
                 ELSE [stack |-> Pop(stk), result |-> res]
        ELSE IF is_control_structure(ts_node_type(t, n))
        THEN IF is_else_if_node(t, n)
             THEN [stack |-> SetTop(stk, [f EXCEPT !.pc = "nest", !.is_else_if = TRUE]),
                   result |-> increment_for_hybrid(res, "else-if chain",
                                                   line_number_of(t, n))]
             ELSE [stack |-> SetTop(stk, [f EXCEPT !.pc = "nest"]),
                   result |-> increment_for_structural(res, ts_node_type(t, n),
                                                       line_number_of(t, n))]
        ELSE [stack |-> SetTop(stk, [f EXCEPT !.pc = "nest"]), result |-> res]

NestStep_ChainDoesNotNest(t, stk, res) ==
    LET f == Top(stk)
        n == f.node
        ty == ts_node_type(t, n)
        r1 == IF /\ is_control_structure(ty)
                 /\ ~f.is_else_if
                 /\ increases_nesting_level(ty)
                 /\ res.nesting_level > 0
              THEN increment_for_nesting(res, res.nesting_level,
                                         "Nested " \o ty, line_number_of(t, n))
              ELSE res
        r2 == IF increases_nesting_level(ty) /\ ~f.is_else_if
              THEN [r1 EXCEPT !.nesting_level = @ + 1]
              ELSE r1
    IN  [stack |-> SetTop(stk, [f EXCEPT !.pc = "children"]), result |-> r2]

\* lines 132-144: nesting increment, then nesting_level++
NestStep(t, stk, res) ==
    LET f == Top(stk)
        n == f.node
        ty == ts_node_type(t, n)
        r1 == IF /\ is_control_structure(ty)
                 /\ ~f.is_else_if
                 /\ increases_nesting_level(ty)
                 /\ res.nesting_level > 0
              THEN increment_for_nesting(res, res.nesting_level,
                                         "Nested " \o ty, line_number_of(t, n))
              ELSE res
        r2 == IF increases_nesting_level(ty)
              THEN [r1 EXCEPT !.nesting_level = @ + 1]
              ELSE r1
    IN  [stack |-> SetTop(stk, [f EXCEPT !.pc = "children"]), result |-> r2]

ChildStep_LastFirst(t, stk, res) ==
    LET f == Top(stk)
        child == ts_node_child(t, f.node,
                               ts_node_child_count(t, f.node) - 1 - f.i)
    IN  IF ~ts_node_is_null(child)
        THEN [stack |-> Append(SetTop(stk, [f EXCEPT !.i = @ + 1]),
                               Frame(child, res.nesting_level)),
              result |-> res]
        ELSE [stack |-> SetTop(stk, [f EXCEPT !.i = @ + 1]), result |-> res]

\* lines 147-153: one iteration of the child loop (i < child_count)
ChildStep(t, stk, res) ==
    LET f == Top(stk)
        child == ts_node_child(t, f.node, f.i)
    IN  IF ~ts_node_is_null(child)
        THEN [stack |-> Append(SetTop(stk, [f EXCEPT !.i = @ + 1]),
                               Frame(child, res.nesting_level)),
              result |-> res]
        ELSE [stack |-> SetTop(stk, [f EXCEPT !.i = @ + 1]), result |-> res]

LeaveStep_NoDecrement(t, stk, res) ==
    [stack |-> Pop(stk), result |-> res]

\* lines 155-157 and the return: nesting_level--
LeaveStep(t, stk, res) ==
    LET f == Top(stk)
    IN  [stack |-> Pop(stk),
         result |-> IF increases_nesting_level(ts_node_type(t, f.node))
                    THEN [res EXCEPT !.nesting_level = @ - 1]
                    ELSE res]

\* line 108: return after the body of a non-nested function was processed
FnReturnStep(t, stk, res) == [stack |-> Pop(stk), result |-> res]

\* one step of the running traversal
Step(t, stk, res) ==
    LET f == Top(stk)
    IN  CASE f.pc = "enter" -> EnterStep(t, stk, res)
          [] f.pc = "nest" -> NestStep(t, stk, res)
          [] f.pc = "fn_return" -> FnReturnStep(t, stk, res)
          [] f.pc = "children" ->
                IF f.i < ts_node_child_count(t, f.node)
                THEN ChildStep(t, stk, res)
                ELSE LeaveStep(t, stk, res)

RECURSIVE Run(_, _, _)
Run(t, stk, res) ==
    IF stk = <<>> THEN res
    ELSE LET c == Step(t, stk, res) IN Run(t, c.stack, c.result)

(***************************************************************************)
(* CognitiveComplexity::calculate.                                         *)
(***************************************************************************)
\* lines 20-36: the node the traversal starts from (NullNode: return early)
body_node_of(t, root) ==
    IF ts_node_type(t, root) \in {"function_definition", "method_definition"}
    THEN ts_node_child_by_field_name(t, root, "body")
    ELSE root

calculate(t, root) ==
    IF ts_node_is_null(root) THEN EmptyResult
    ELSE IF ts_node_is_null(body_node_of(t, root)) THEN EmptyResult
    ELSE Run(t, <<Frame(body_node_of(t, root), 0)>>,
             [EmptyResult EXCEPT !.nesting_level = 0])

(***************************************************************************)
(* Syntax trees of the calculator specification.                           *)
(***************************************************************************)
CalcRootTypes == {"function_definition", "translation_unit"}

CalcTypes == {"if_statement", "for_statement", "else_clause",
              "case_statement", "function_definition", "compound_statement"}

LastAtDepth(t, d) ==
    CHOOSE j \in 1..Len(t) :
        t[j].depth = d /\ \A k \in (j + 1)..Len(t) : t[k].depth # d

\* grammar of the generated trees: the only child of a function definition
\* is its body; an else clause hangs under a conditional
CalcAllowed(t, d, ty) ==
    LET p == LastAtDepth(t, d - 1)
    IN  /\ t[p].type = "function_definition"
            => p = Len(t) /\ ty = "compound_statement"
        /\ ty = "else_clause" => t[p].type = "if_statement"

CalcExtend(t) ==
    {Append(t, MkNode(ty, d,
                      IF t[LastAtDepth(t, d - 1)].type = "function_definition"
                      THEN "body" ELSE "",
                      <<>>, "", Len(t))) :
        <<d, ty>> \in {x \in (1..(t[Len(t)].depth + 1)) \X CalcTypes :
                          CalcAllowed(t, x[1], x[2])}}

CalcRoots == {<<MkNode(ty, 0, "", <<>>, "", 0)>> : ty \in CalcRootTypes}

\* t, or t extended by at most k further nodes
RECURSIVE TreeIsExtensionOf(_, _, _)
TreeIsExtensionOf(tr, t, k) ==
    \/ tr = t
    \/ /\ k > 0
       /\ \E t2 \in CalcExtend(t) : TreeIsExtensionOf(tr, t2, k - 1)

\* a tree written as <<type, depth>> pairs, one node per row
TreeOf(spec) ==
    [i \in 1..Len(spec) |->
        MkNode(spec[i][1], spec[i][2],
               IF i > 1 /\ spec[i - 1][1] = "function_definition"
                        /\ spec[i][2] = spec[i - 1][2] + 1
                        /\ spec[i][1] \in {"compound_statement", "block"}
               THEN "body" ELSE "",
               <<>>, "", i - 1)]

\* examples/vowel_count.cpp, countVowels (lines 6-23)
CountVowelsTree ==
    TreeOf(<<
        <<"function_definition", 0>>,
        <<"compound_statement", 1>>,
        <<"declaration", 2>>,
        <<"for_range_loop", 2>>,
        <<"compound_statement", 3>>,
        <<"for_range_loop", 4>>,
        <<"compound_statement", 5>>,
        <<"if_statement", 6>>,
        <<"binary_expression", 7>>,
        <<"compound_statement", 7>>,
        <<"if_statement", 2>>,
        <<"binary_expression", 3>>,
        <<"compound_statement", 3>>,
        <<"return_statement", 4>>,
        <<"return_statement", 2>> >>)

\* examples/vowel_count.cpp, main (lines 26-34)
MainTree ==
    TreeOf(<<
        <<"function_definition", 0>>,
        <<"compound_statement", 1>>,
        <<"declaration", 2>>,
        <<"expression_statement", 2>>,
        <<"binary_expression", 3>>,
        <<"expression_statement", 2>>,
        <<"call_expression", 3>>,
        <<"return_statement", 2>> >>)

\* if (..) {..} else if (..) {..} else {..}, the else-if under an else clause
ElseIfChainTree ==
    TreeOf(<<
        <<"function_definition", 0>>,
        <<"compound_statement", 1>>,
        <<"if_statement", 2>>,
        <<"compound_statement", 3>>,
        <<"else_clause", 3>>,
        <<"if_statement", 4>>,
        <<"compound_statement", 5>>,
        <<"else_clause", 5>>,
        <<"compound_statement", 6>> >>)

\* one tree per remaining nesting construct, each with a nested conditional
LoopTree(ty) ==
    TreeOf(<<
        <<"function_definition", 0>>,
        <<"compound_statement", 1>>,
        <<ty, 2>>,
        <<"compound_statement", 3>>,
        <<ty, 4>>,
        <<"elif_clause", 5>>,
        <<"if_statement", 2>> >>)

\* switch (..) { case ..: if (..) {..} case ..: .. }
SwitchTree ==
    TreeOf(<<
        <<"function_definition", 0>>,
        <<"compound_statement", 1>>,
        <<"switch_statement", 2>>,
        <<"compound_statement", 3>>,
        <<"case_statement", 4>>,
        <<"if_statement", 5>>,
        <<"compound_statement", 6>>,
        <<"case_statement", 4>>,
        <<"break_statement", 5>> >>)

\* a conditional under an elif clause and one under an else clause, both
\* inside a loop
ElifTree ==
    TreeOf(<<
        <<"function_definition", 0>>,
        <<"block", 1>>,
        <<"for_statement", 2>>,
        <<"if_statement", 3>>,
        <<"elif_clause", 4>>,
        <<"if_statement", 5>>,
        <<"else_clause", 4>>,
        <<"if_statement", 5>> >>)

\* if (..) { for.. } else if (..) { for.. } else if (..) { for.. }
ElseIfBodiesTree ==
    TreeOf(<<
        <<"function_definition", 0>>,
        <<"compound_statement", 1>>,
        <<"if_statement", 2>>,
        <<"compound_statement", 3>>,
        <<"for_statement", 4>>,
        <<"else_clause", 3>>,
        <<"if_statement", 4>>,
        <<"compound_statement", 5>>,
        <<"for_statement", 6>>,
        <<"else_clause", 5>>,
        <<"if_statement", 6>>,
        <<"compound_statement", 7>>,
        <<"for_statement", 8>> >>)

CalcCorpus ==
    {CountVowelsTree, MainTree, ElseIfChainTree, SwitchTree, ElifTree,
     ElseIfBodiesTree}
    \cup {LoopTree(ty) : ty \in {"while_statement", "do_statement",
                                 "catch_clause", "for_range_loop",
                                 "if_statement", "for_statement"}}


(***************************************************************************)
(* Specification of the calculator: one call of calculate, step by step.   *)
(***************************************************************************)
CalcInit ==
    /\ \/ \E t \in CalcRoots : TreeIsExtensionOf(tree, t, MaxCalcNodes - 1)
       \/ tree \in CalcCorpus
    /\ root_node = NullNode
    /\ mode = "idle"
    /\ stack = <<>>
    /\ result = EmptyResult
    /\ returned = "none"
    /\ earlier = <<>>
    /\ language = "cpp"
    /\ complexity_threshold_ = 0
    /\ amode = "idle"
    /\ functions = <<>>
    /\ file_results = <<>>
    /\ FactoryInit
    /\ NoMain

Calculate_NoReset ==
    /\ mode = "idle"
    /\ \E root \in {NullNode, 1}
                   \cup {n \in 1..Len(tree) : tree[n].type = "function_definition"} :
        /\ root_node' = root
        /\ IF ts_node_is_null(root) \/ ts_node_is_null(body_node_of(tree, root))
           THEN /\ mode' = "done"
                /\ returned' = EmptyResult
                /\ UNCHANGED <<stack, result>>
           ELSE /\ mode' = "running"
                /\ stack' = <<Frame(body_node_of(tree, root), 0)>>
                /\ result' = [result EXCEPT !.nesting_level = 0]
                /\ UNCHANGED returned
    /\ UNCHANGED <<tree, earlier, anVars, facVars, batVars>>

\* calculate, lines 11-43: up to the call of analyze_control_flow
Calculate ==
    /\ mode = "idle"
    /\ \E root \in {NullNode, 1}
                   \cup {n \in 1..Len(tree) : tree[n].type = "function_definition"} :
        /\ root_node' = root
        /\ IF ts_node_is_null(root) \/ ts_node_is_null(body_node_of(tree, root))
           THEN /\ mode' = "done"
                /\ returned' = EmptyResult
                /\ UNCHANGED <<stack, result>>
           ELSE /\ mode' = "running"
                /\ stack' = <<Frame(body_node_of(tree, root), 0)>>
                /\ result' = [EmptyResult EXCEPT !.nesting_level = 0]
                /\ UNCHANGED returned
    /\ UNCHANGED <<tree, earlier, anVars, facVars, batVars>>

Apply(c) ==
    /\ stack' = c.stack
    /\ result' = c.result
    /\ UNCHANGED <<tree, root_node, mode, returned, earlier, anVars,
                   facVars, batVars>>

Enter ==
    /\ mode = "running" /\ stack # <<>> /\ Top(stack).pc = "enter"
    /\ Apply(EnterStep(tree, stack, result))

Nest ==
    /\ mode = "running" /\ stack # <<>> /\ Top(stack).pc = "nest"
    /\ Apply(NestStep(tree, stack, result))

ProcessChild ==
    /\ mode = "running" /\ stack # <<>> /\ Top(stack).pc = "children"
    /\ Top(stack).i < ts_node_child_count(tree, Top(stack).node)
    /\ Apply(ChildStep(tree, stack, result))

Leave ==
    /\ mode = "running" /\ stack # <<>> /\ Top(stack).pc = "children"
    /\ Top(stack).i >= ts_node_child_count(tree, Top(stack).node)
    /\ Apply(LeaveStep(tree, stack, result))

FnReturn ==
    /\ mode = "running" /\ stack # <<>> /\ Top(stack).pc = "fn_return"
    /\ Apply(FnReturnStep(tree, stack, result))

\* calculate, line 44
Return ==
    /\ mode = "running" /\ stack = <<>>
    /\ mode' = "done"
    /\ returned' = result
    /\ UNCHANGED <<tree, root_node, stack, result, earlier, anVars,
                   facVars, batVars>>

CalcNext ==
    \/ Calculate
    \/ Enter
    \/ Nest
    \/ ProcessChild
    \/ Leave
    \/ FnReturn
    \/ Return

SpecCalc == CalcInit /\ [][CalcNext]_vars

(***************************************************************************)
(* Specification of repeated calls: the analyzer keeps one calculator      *)
(* object (complexity_calculator_) and calls calculate on it once per      *)
(* function, keeping every result it got.                                  *)
(***************************************************************************)
MaxCalls == 3
MaxCallNodes == 3

CallsInit ==
    /\ \/ \E t \in CalcRoots : TreeIsExtensionOf(tree, t, MaxCallNodes - 1)
       \/ tree \in CalcCorpus
    /\ root_node = NullNode
    /\ mode = "idle"
    /\ stack = <<>>
    /\ result = EmptyResult
    /\ returned = "none"
    /\ earlier = <<>>
    /\ language = "cpp"
    /\ complexity_threshold_ = 0
    /\ amode = "idle"
    /\ functions = <<>>
    /\ file_results = <<>>
    /\ FactoryInit
    /\ NoMain

\* the caller stores the returned result and is ready for the next call
\* (analyze_content, the loop over the functions)
NextCall ==
    /\ mode = "done"
    /\ Len(earlier) < MaxCalls - 1
    /\ earlier' = Append(earlier, [root_node |-> root_node,
                                    returned |-> returned])
    /\ mode' = "idle"
    /\ UNCHANGED <<tree, root_node, stack, result, returned, anVars,
                   facVars, batVars>>

CallsNext ==
    \/ Calculate
    \/ Enter
    \/ Nest
    \/ ProcessChild
    \/ Leave
    \/ FnReturn
    \/ Return
    \/ NextCall

SpecCalls == CallsInit /\ [][CallsNext]_vars

(***************************************************************************)
(* ParserBase / CppParser / PythonParser: the language extractors.         *)
(***************************************************************************)
\* ParserBase::extract_node_text applied to node k of a declarator chain:
\* the source text the node spans
RECURSIVE extract_node_text(_, _, _)
extract_node_text(decl, k, name) ==
    IF k > Len(decl) THEN ""
    ELSE CASE decl[k] \in {"identifier", "field_identifier"} -> name
           [] decl[k] = "destructor_name" ->
                "~" \o extract_node_text(decl, k + 1, name)
           [] decl[k] \in {"qualified_identifier", "scoped_identifier"} ->
                "A::" \o extract_node_text(decl, k + 1, name)
           [] decl[k] = "function_declarator" ->
                extract_node_text(decl, k + 1, name) \o "()"
           [] decl[k] = "pointer_declarator" ->
                "*" \o extract_node_text(decl, k + 1, name)
           [] OTHER -> extract_node_text(decl, k + 1, name)

\* CppParser::find_function_name on node k of the chain; 0 is the null node
RECURSIVE cpp_find_function_name(_, _)
cpp_find_function_name(decl, k) ==
    IF k > Len(decl) THEN 0
    ELSE CASE decl[k] = "function_declarator" ->
                IF k < Len(decl) THEN cpp_find_function_name(decl, k + 1) ELSE 0
           [] decl[k] = "identifier" -> k
           [] decl[k] \in {"qualified_identifier", "scoped_identifier"} ->
                IF k < Len(decl) THEN k + 1 ELSE 0
           [] OTHER -> cpp_find_function_name(decl, k + 1)

end_line_of(t, n) ==
    (CHOOSE r \in {t[j].row : j \in Subtree(t, n)} :
        \A j \in Subtree(t, n) : t[j].row <= r) + 1

FunctionInfo(nm, t, n) ==
    [name |-> nm, start_line |-> t[n].row + 1, end_line |-> end_line_of(t, n),
     node |-> n]

\* CppParser::collect_functions (class_scope is always "")
RECURSIVE cpp_collect_functions(_, _, _)
RECURSIVE cpp_collect_children(_, _, _, _)
cpp_collect_functions(t, n, fns) ==
    IF ts_node_is_null(n) THEN fns
    ELSE IF /\ ts_node_type(t, n) = "function_definition"
            /\ t[n].declarator # <<>>
            /\ cpp_find_function_name(t[n].declarator, 1) # 0
         THEN Append(fns,
                FunctionInfo(extract_node_text(t[n].declarator,
                                cpp_find_function_name(t[n].declarator, 1),
                                t[n].name), t, n))
         ELSE cpp_collect_children(t, n, 0, fns)

cpp_collect_children(t, n, i, fns) ==
    IF i >= ts_node_child_count(t, n) THEN fns
    ELSE cpp_collect_children(t, n, i + 1,
            cpp_collect_functions(t, ts_node_child(t, n, i), fns))

\* the "name" field of a definition of the indentation-based grammar
name_field(t, n) == IF t[n].declarator = <<>> THEN t[n].name ELSE ""

has_name_field(t, n) == t[n].declarator = <<>> /\ t[n].name # ""

qualify_NoPrefix(t, parent, nm) == nm

\* PythonParser::collect_functions, lines 131-144: prefix the names of the
\* enclosing function definitions, walking the parents inner to outer
RECURSIVE qualify(_, _, _)
qualify(t, parent, nm) ==
    IF ts_node_is_null(parent) THEN nm
    ELSE IF ts_node_type(t, parent) = "function_definition"
            /\ has_name_field(t, parent)
         THEN qualify(t, ts_node_parent(t, parent),
                      name_field(t, parent) \o "." \o nm)
         ELSE qualify(t, ts_node_parent(t, parent), nm)

RECURSIVE python_collect_functions(_, _, _)
RECURSIVE python_collect_children(_, _, _, _)
python_collect_functions(t, n, fns) ==
    LET type == ts_node_type(t, n)
        func_node == IF type = "decorated_definition"
                     THEN ts_node_child_by_field_name(t, n, "definition")
                     ELSE n
    IN  IF type \in {"function_definition", "decorated_definition"}
        THEN IF ts_node_is_null(func_node) THEN fns
             ELSE python_collect_children(t, n, 0,
                    Append(fns,
                        FunctionInfo(IF has_name_field(t, func_node)
                                     THEN qualify(t, ts_node_parent(t, func_node),
                                                  name_field(t, func_node))
                                     ELSE "",
                                     t, func_node)))
        ELSE python_collect_children(t, n, 0, fns)

python_collect_children(t, n, i, fns) ==
    IF i >= ts_node_child_count(t, n) THEN fns
    ELSE python_collect_children(t, n, i + 1,
            python_collect_functions(t, ts_node_child(t, n, i), fns))

\* parse_functions of the extractor create_parser(language) returns
parse_functions(t, lang) ==
    IF lang = "cpp" THEN cpp_collect_functions(t, 1, <<>>)
    ELSE python_collect_functions(t, 1, <<>>)

(***************************************************************************)
(* Analyzer: find_function_node, extract_function_name, analyze_content.   *)
(***************************************************************************)
\* Analyzer::extract_function_name on node k of a declarator chain: the text
\* of the first identifier found below it, "" when there is none
extract_function_name(decl, k, name) ==
    IF \E j \in k..Len(decl) : decl[j] = "identifier" THEN name ELSE ""

\* the parents' names appended after the own name instead of prefixed
full_name_InnerToOuter(t, parent, nm) ==
    LET named == {a \in Ancestors(t, parent) \cup {parent} :
                     /\ a # NullNode
                     /\ ts_node_type(t, a) = "function_definition"
                     /\ has_name_field(t, a)}
        Join[S \in SUBSET named] ==
            IF S = {} THEN ""
            ELSE LET a == CHOOSE x \in S : \A y \in S : y >= x
                 IN  "." \o name_field(t, a) \o Join[S \ {a}]
    IN  nm \o Join[named]

\* find_function_node, lines 304-317: rebuild the full name of a definition
RECURSIVE full_name(_, _, _)
full_name(t, parent, nm) ==
    IF ts_node_is_null(parent) THEN nm
    ELSE IF ts_node_type(t, parent) = "function_definition"
            /\ has_name_field(t, parent)
         THEN full_name(t, ts_node_parent(t, parent),
                        name_field(t, parent) \o "." \o nm)
         ELSE full_name(t, ts_node_parent(t, parent), nm)

RECURSIVE find_function_node(_, _, _)
RECURSIVE find_in_children(_, _, _, _)
find_function_node(t, n, function_name) ==
    IF ts_node_is_null(n) THEN n
    ELSE
    LET type == ts_node_type(t, n)
        is_def == type \in {"function_definition", "decorated_definition"}
        actual_func_node == IF type = "decorated_definition"
                            THEN ts_node_child_by_field_name(t, n, "definition")
                            ELSE n
    IN  IF is_def /\ ts_node_is_null(actual_func_node) THEN NullNode
        ELSE IF /\ is_def
                /\ has_name_field(t, actual_func_node)
                /\ full_name(t, ts_node_parent(t, actual_func_node),
                             name_field(t, actual_func_node)) = function_name
        THEN actual_func_node
        ELSE IF /\ type = "function_definition"
                /\ t[n].declarator # <<>>
                /\ cpp_find_function_name(t[n].declarator, 1) # 0
                /\ extract_function_name(t[n].declarator,
                       cpp_find_function_name(t[n].declarator, 1),
                       t[n].name) = function_name
        THEN n
        ELSE find_in_children(t, n, 0, function_name)

find_in_children(t, n, i, function_name) ==
    IF i >= ts_node_child_count(t, n) THEN NullNode
    ELSE LET r == find_function_node(t, ts_node_child(t, n, i), function_name)
         IN  IF ~ts_node_is_null(r) THEN r
             ELSE find_in_children(t, n, i + 1, function_name)

AnalysisResult(lang, func, c) ==
    [language |-> lang, function_name |-> func.name,
     start_line |-> func.start_line, end_line |-> func.end_line,
     complexity |-> c.total_complexity, factors |-> c.factors]

clears_threshold_Strict(complexity, threshold) == complexity > threshold

\* analyze_content, line 267: is the result retained
clears_threshold(complexity, threshold) == complexity >= threshold

\* analyze_content, lines 247-273: the loop over the extracted functions
RECURSIVE analyze_functions(_, _, _, _, _, _)
analyze_functions(t, lang, fns, i, threshold, results) ==
    IF i > Len(fns) THEN results
    ELSE LET func == fns[i]
             function_node == find_function_node(t, 1, func.name)
             r == AnalysisResult(lang, func, calculate(t, function_node))
         IN  IF func.name = "" \/ ts_node_is_null(function_node)
             THEN analyze_functions(t, lang, fns, i + 1, threshold, results)
             ELSE analyze_functions(t, lang, fns, i + 1, threshold,
                    IF clears_threshold(r.complexity, threshold)
                    THEN Append(results, r) ELSE results)

(***************************************************************************)
(* Source files of the analyzer specification.                             *)
(***************************************************************************)
Names == {"f", "g"}

Proto(ty, fld, decl, nm) ==
    [type |-> ty, field |-> fld, declarator |-> decl, name |-> nm]

PlainDeclarator == <<"function_declarator", "identifier">>
DestructorDeclarator ==
    <<"function_declarator", "qualified_identifier", "destructor_name",
      "identifier">>
FieldDeclarator == <<"function_declarator", "field_identifier">>

CppFunctions ==
    {Proto("function_definition", "", PlainDeclarator, nm) : nm \in Names}
    \cup {Proto("function_definition", "", DestructorDeclarator, "f"),
          Proto("function_definition", "", FieldDeclarator, "")}

\* what one step of the grammar adds: a statement, or a definition together
\* with its body (a C-family definition may have none: "= default")
Items(lang) ==
    IF lang = "cpp"
    THEN {<<f, Proto("compound_statement", "body", <<>>, "")>> :
                  f \in CppFunctions}
         \cup {<<Proto("function_definition", "", PlainDeclarator, "f")>>,
               <<Proto("if_statement", "", <<>>, "")>>}
    ELSE {<<Proto("function_definition", "", <<>>, nm),
            Proto("block", "body", <<>>, "")>> : nm \in Names}
         \cup {<<Proto("decorated_definition", "", <<>>, ""),
                 Proto("function_definition", "definition", <<>>, "f"),
                 Proto("block", "body", <<>>, "")>>,
               <<Proto("if_statement", "", <<>>, "")>>}

AppendItem(t, d, item) ==
    t \o [i \in 1..Len(item) |->
            MkNode(item[i].type, d + i - 1, item[i].field,
                   item[i].declarator, item[i].name, Len(t) + i - 1)]

FileExtend(t, lang, k) ==
    {AppendItem(t, x[1], x[2]) :
        x \in {y \in (1..(t[Len(t)].depth + 1)) \X Items(lang) :
                 /\ Len(y[2]) <= k
                 /\ t[LastAtDepth(t, y[1] - 1)].type \in
                        {"translation_unit", "module", "compound_statement",
                         "block", "if_statement"}
                 /\ t[LastAtDepth(t, y[1] - 1)].type = "translation_unit"
                        => y[2][1].type = "function_definition"}}

RECURSIVE FileIsExtensionOf(_, _, _, _)
FileIsExtensionOf(tr, t, lang, k) ==
    \/ tr = t
    \/ /\ k > 0
       /\ \E t2 \in FileExtend(t, lang, k) :
             FileIsExtensionOf(tr, t2, lang, k - (Len(t2) - Len(t)))

FileRoot(lang) ==
    <<MkNode(IF lang = "cpp" THEN "translation_unit" ELSE "module",
             0, "", <<>>, "", 0)>>

\* a tree written as items <<depth, item>>
RECURSIVE FileOf(_, _)
FileOf(t, spec) ==
    IF spec = <<>> THEN t
    ELSE FileOf(AppendItem(t, spec[1][1], spec[1][2]), Tail(spec))

CppFn(nm) ==
    <<Proto("function_definition", "", PlainDeclarator, nm),
      Proto("compound_statement", "body", <<>>, "")>>
PyFn(nm) ==
    <<Proto("function_definition", "", <<>>, nm),
      Proto("block", "body", <<>>, "")>>
Stmt(ty) == <<Proto(ty, "", <<>>, "")>>

\* f scores 4 (for > if, if, if... ), g scores 5
ThresholdFile ==
    FileOf(FileRoot("cpp"), <<
        <<1, CppFn("f")>>,
        <<3, Stmt("for_statement")>>, <<4, Stmt("if_statement")>>,
        <<3, Stmt("if_statement")>>,
        <<1, CppFn("g")>>,
        <<3, Stmt("for_statement")>>, <<4, Stmt("if_statement")>>,
        <<3, Stmt("if_statement")>>, <<3, Stmt("if_statement")>> >>)

\* def f(): / def g(): / def f(): if ..: pass, then def g() at top level
NestedPyFile ==
    FileOf(FileRoot("python"), <<
        <<1, PyFn("f")>>,
        <<3, PyFn("g")>>,
        <<5, PyFn("f")>>,
        <<7, Stmt("if_statement")>>,
        <<1, PyFn("g")>> >>)

FileCorpus(lang) == IF lang = "cpp" THEN {ThresholdFile} ELSE {NestedPyFile}

(***************************************************************************)
(* Specification of the analyzer: set_complexity_threshold and one call of *)
(* analyze_content on a parsed file.                                       *)
(***************************************************************************)
AnInit ==
    /\ language \in {"cpp", "python"}
    /\ \/ FileIsExtensionOf(tree, FileRoot(language), language, MaxFileNodes - 1)
       \/ tree \in FileCorpus(language)
    /\ complexity_threshold_ = 0
    /\ amode = "idle"
    /\ functions = <<>>
    /\ file_results = <<>>
    /\ root_node = NullNode
    /\ mode = "idle"
    /\ stack = <<>>
    /\ result = EmptyResult
    /\ returned = "none"
    /\ earlier = <<>>
    /\ FactoryInit
    /\ NoMain

SetComplexityThreshold ==
    /\ amode = "idle"
    /\ \E threshold \in 0..MaxThreshold : complexity_threshold_' = threshold
    /\ UNCHANGED <<tree, calcVars, facVars, batVars, language, amode, functions,
                   file_results>>

AnalyzeContent ==
    /\ amode = "idle"
    /\ amode' = "done"
    /\ functions' = parse_functions(tree, language)
    /\ file_results' = analyze_functions(tree, language,
                            parse_functions(tree, language), 1,
                            complexity_threshold_, <<>>)
    /\ UNCHANGED <<tree, calcVars, facVars, batVars, language,
                   complexity_threshold_>>

AnNext ==
    \/ SetComplexityThreshold
    \/ AnalyzeContent

SpecAnalyzer == AnInit /\ [][AnNext]_vars

(***************************************************************************)
(* ParserFactory: the registry of extractor prototypes.  A file path and   *)
(* an extension are sequences of characters; an extractor object is a      *)
(* record of the answers of its class (get_language_name, get_extensions). *)
(***************************************************************************)
MaxObjects == 4

CppExtensions_NoHpp ==
    {<<"c", "p", "p">>, <<"c", "x", "x">>, <<"c", "c">>, <<"h", "x", "x">>,
     <<"h">>}

\* CppParser::get_extensions
CppExtensions ==
    {<<"c", "p", "p">>, <<"c", "x", "x">>, <<"c", "c">>, <<"h", "p", "p">>,
     <<"h", "x", "x">>, <<"h">>}

\* PythonParser::get_extensions
PythonExtensions == {<<"p", "y">>}

ParserObject(cls, lang, exts, reg) ==
    [class |-> cls, language_name |-> lang, extensions |-> exts,
     registered |-> reg]

\* std::make_unique<CppParser>() and std::make_unique<PythonParser>()
CppParser == ParserObject("CppParser", "cpp", CppExtensions, FALSE)
PythonParser == ParserObject("PythonParser", "python", PythonExtensions, FALSE)

\* further ParserBase implementations a caller may hand to register_parser
OtherParsers ==
    {ParserObject("CParser", "c", {<<"h">>, <<"c">>}, FALSE),
     ParserObject("StubParser", "python", {<<"p", "y", "w">>}, FALSE)}

\* CppParser::clone / PythonParser::clone: a new object of the same class
clone(obj) == [obj EXCEPT !.registered = FALSE]

\* position of the last occurrence of character c in s, 0 when there is none
LastIndexOf(s, c) ==
    IF \E i \in 1..Len(s) : s[i] = c
    THEN CHOOSE i \in 1..Len(s) :
            s[i] = c /\ \A j \in (i + 1)..Len(s) : s[j] # c
    ELSE 0

\* std::filesystem::path::filename
path_filename(path) == SubSeq(path, LastIndexOf(path, "/") + 1, Len(path))

\* std::filesystem::path::extension: from the last period of the filename,
\* empty for ".", ".." and for a filename whose only period is its first
\* character
path_extension(path) ==
    LET f == path_filename(path)
        d == LastIndexOf(f, ".")
    IN  IF d <= 1 \/ f = <<".", ".">> THEN <<>> ELSE SubSeq(f, d, Len(f))

MapPut_DropsOthers(m, k, v) == [x \in {k} |-> v]

\* operator[] assignment on a std::unordered_map
MapPut(m, k, v) == [x \in DOMAIN m \cup {k} |-> IF x = k THEN v ELSE m[x]]

RECURSIVE MapPutAll(_, _, _)
MapPutAll(m, ks, v) ==
    IF ks = {} THEN m
    ELSE LET k == CHOOSE x \in ks : TRUE
         IN  MapPutAll(MapPut(m, k, v), ks \ {k}, v)

register_parser_FirstWins(f, parser) ==
    LET id == Len(f.objects) + 1
        nm == parser.language_name
    IN  [parsers |-> IF nm \in DOMAIN f.parsers THEN f.parsers
                     ELSE MapPut(f.parsers, nm, id),
         extensions |->
             MapPutAll(f.extensions,
                       parser.extensions \ DOMAIN f.extensions, nm),
         objects |-> Append(f.objects, [parser EXCEPT !.registered = TRUE])]

\* ParserFactory::register_parser(std::unique_ptr<ParserBase>) for a non-null
\* parser: f is the registry <<parsers_, extensions_>> with the objects
register_parser(f, parser) ==
    LET id == Len(f.objects) + 1
        nm == parser.language_name
    IN  [parsers |-> MapPut(f.parsers, nm, id),
         extensions |-> MapPutAll(f.extensions, parser.extensions, nm),
         objects |-> Append(f.objects, [parser EXCEPT !.registered = TRUE])]

create_parser_ReturnsPrototype(f, lang) ==
    IF lang \in DOMAIN f.parsers
    THEN [ret |-> f.parsers[lang], objects |-> f.objects]
    ELSE [ret |-> 0, objects |-> f.objects]

\* ParserFactory::create_parser: the id of the clone (0: nullptr) and the
\* objects after the call
create_parser(f, lang) ==
    IF lang \in DOMAIN f.parsers
    THEN [ret |-> Len(f.objects) + 1,
          objects |-> Append(f.objects, clone(f.objects[f.parsers[lang]]))]
    ELSE [ret |-> 0, objects |-> f.objects]

create_parser_for_file_DefaultsToCpp(f, filename) ==
    LET ext0 == path_extension(filename)
        ext == IF ext0 # <<>> /\ ext0[1] = "." THEN Tail(ext0) ELSE ext0
    IN  IF ext \in DOMAIN f.extensions
        THEN create_parser(f, f.extensions[ext])
        ELSE create_parser(f, "cpp")

\* ParserFactory::create_parser_for_file
create_parser_for_file(f, filename) ==
    LET ext0 == path_extension(filename)
        ext == IF ext0 # <<>> /\ ext0[1] = "." THEN Tail(ext0) ELSE ext0
    IN  IF ext0 = <<>> THEN [ret |-> 0, objects |-> f.objects]
        ELSE IF ext \in DOMAIN f.extensions
             THEN create_parser(f, f.extensions[ext])
             ELSE [ret |-> 0, objects |-> f.objects]

Factory == [parsers |-> parsers_, extensions |-> extensions_,
            objects |-> objects]

\* the file paths and language ids the callers pass
Paths ==
    {<<"a", ".", "p", "y">>, <<"a", ".", "h", "p", "p">>,
     <<"a", ".", "c", "p", "p">>, <<"a", ".", "c", "x", "x">>,
     <<"a", ".", "c", "c">>, <<"a", ".", "h", "x", "x">>,
     <<"a", ".", "h">>, <<"a", ".", "r", "s">>,
     <<"F", ".", "P", "Y">>, <<"a", ".", "H", "P", "P">>,
     <<"a", ".", "p", "y", "w">>, <<"a">>, <<".", "p", "y">>,
     <<"d", ".", "p", "y", "/", "a">>, <<"a", ".">>,
     <<"d", "/", "b", ".", "a", ".", "p", "y">>}

LanguageIds == {"cpp", "python", "c", "rust", ""}

FacInit ==
    /\ FactoryInit
    /\ NoMain
    /\ tree = <<>>
    /\ root_node = NullNode
    /\ mode = "idle"
    /\ stack = <<>>
    /\ result = EmptyResult
    /\ returned = "none"
    /\ earlier = <<>>
    /\ language = ""
    /\ complexity_threshold_ = 0
    /\ amode = "idle"
    /\ functions = <<>>
    /\ file_results = <<>>

SetFactory(f) ==
    /\ parsers_' = f.parsers
    /\ extensions_' = f.extensions
    /\ objects' = f.objects

\* Analyzer::Analyzer: register_parser<CppParser>() and then
\* register_parser<PythonParser>() (initialize succeeds on a new object)
AnalyzerCtor ==
    /\ Len(objects) + 2 <= MaxObjects
    /\ SetFactory(register_parser(register_parser(Factory, CppParser),
                                  PythonParser))
    /\ last_call' = [op |-> "Analyzer", arg |-> <<>>, ret |-> 0]
    /\ UNCHANGED <<tree, calcVars, anVars, batVars>>

\* register_parser with a parser object of the caller
RegisterParser ==
    /\ Len(objects) < MaxObjects
    /\ \E parser \in {CppParser, PythonParser} \cup OtherParsers :
          /\ SetFactory(register_parser(Factory, parser))
          /\ last_call' = [op |-> "register_parser",
                           arg |-> parser.class, ret |-> 0]
    /\ UNCHANGED <<tree, calcVars, anVars, batVars>>

\* register_parser(nullptr), lines 8-11
RegisterNull ==
    /\ last_call' = [op |-> "register_parser", arg |-> "nullptr", ret |-> 0]
    /\ UNCHANGED <<tree, calcVars, anVars, batVars, parsers_, extensions_,
                   objects>>

CreateParser ==
    /\ \E lang \in LanguageIds :
          LET c == create_parser(Factory, lang)
          IN  /\ Len(c.objects) <= MaxObjects
              /\ objects' = c.objects
              /\ last_call' = [op |-> "create_parser", arg |-> lang,
                               ret |-> c.ret]
    /\ UNCHANGED <<tree, calcVars, anVars, batVars, parsers_, extensions_>>

CreateParserForFile ==
    /\ \E filename \in Paths :
          LET c == create_parser_for_file(Factory, filename)
          IN  /\ Len(c.objects) <= MaxObjects
              /\ objects' = c.objects
              /\ last_call' = [op |-> "create_parser_for_file",
                               arg |-> filename, ret |-> c.ret]
    /\ UNCHANGED <<tree, calcVars, anVars, batVars, parsers_, extensions_>>

FacNext ==
    \/ AnalyzerCtor
    \/ RegisterParser
    \/ RegisterNull
    \/ CreateParser
    \/ CreateParserForFile

SpecFactory == FacInit /\ [][FacNext]_vars

(***************************************************************************)
(* Analyzer::analyze_file, analyze_directory / analyze_git_repository and  *)
(* main.  A file is its path, whether it can be opened, whether the        *)
(* provider builds a tree for it, the language it is written in and the    *)
(* tree its content parses to in that language (<<>>: empty content).      *)
(***************************************************************************)
MaxFiles == 3

File(path, readable, parses, lang, t) ==
    [path |-> path, readable |-> readable, parses |-> parses,
     written_in |-> lang, tree |-> t]

\* def f(): if ...: pass
PythonFile ==
    FileOf(FileRoot("python"),
           << <<1, PyFn("f")>>, <<3, Stmt("if_statement")>> >>)

\* void g() { while (..) {} }
HeaderFile ==
    FileOf(FileRoot("cpp"),
           << <<1, CppFn("g")>>, <<3, Stmt("while_statement")>> >>)

RustFile == <<MkNode("source_file", 0, "", <<>>, "", 0)>>

FileKinds ==
    {File(<<"a", ".", "c", "p", "p">>, TRUE, TRUE, "cpp", ThresholdFile),
     File(<<"b", ".", "p", "y">>, TRUE, TRUE, "python", PythonFile),
     File(<<"c", ".", "p", "y">>, FALSE, TRUE, "python", PythonFile),
     File(<<"e", ".", "c", "p", "p">>, TRUE, TRUE, "cpp", <<>>),
     File(<<"r", ".", "r", "s">>, TRUE, TRUE, "rust", RustFile),
     File(<<"p", ".", "h", "p", "p">>, TRUE, FALSE, "cpp", HeaderFile),
     File(<<"v">>, TRUE, TRUE, "cpp", HeaderFile)}

\* a pattern of --ignore: the tokens of a valid regular expression, or the
\* characters of a text std::regex rejects
PyPattern ==
    [valid |-> TRUE, tokens |-> <<".*", "\\.", "p", "y">>, chars |-> <<>>]
GlobPattern ==
    [valid |-> FALSE, tokens |-> <<>>, chars |-> <<"*", ".", "p", "y">>]

\* std::regex_match: the whole text matches the expression
RECURSIVE regex_match(_, _)
regex_match(text, tokens) ==
    IF tokens = <<>> THEN text = <<>>
    ELSE IF tokens[1] = ".*"
         THEN \E k \in 0..Len(text) :
                 regex_match(SubSeq(text, k + 1, Len(text)), Tail(tokens))
         ELSE /\ text # <<>>
              /\ \/ tokens[1] = "."
                 \/ tokens[1] = "\\." /\ text[1] = "."
                 \/ tokens[1] = text[1]
              /\ regex_match(Tail(text), Tail(tokens))

\* std::string::find(pattern) != npos
string_find(text, sub) ==
    \E k \in 0..(Len(text) - Len(sub)) :
        SubSeq(text, k + 1, k + Len(sub)) = sub

\* utils::matches_pattern
matches_pattern(text, pattern) ==
    IF pattern.valid THEN regex_match(text, pattern.tokens)
    ELSE string_find(text, pattern.chars)

\* Analyzer::should_analyze_file
should_analyze_file(fac, patterns, file_path) ==
    /\ \A pattern \in patterns : ~matches_pattern(file_path, pattern)
    /\ create_parser_for_file(fac, file_path).ret # 0

detect_language_DefaultsToCpp(fac, file_path) ==
    LET c == create_parser_for_file(fac, file_path)
    IN  IF c.ret # 0 THEN c.objects[c.ret].language_name ELSE "cpp"

\* Analyzer::detect_language
detect_language(fac, file_path) ==
    LET c == create_parser_for_file(fac, file_path)
    IN  IF c.ret # 0 THEN c.objects[c.ret].language_name ELSE ""

\* ts_parser_parse_string with the grammar of lang: <<>> is the null tree;
\* content of another language parses to a root without definitions
ts_parser_parse_string(file, lang) ==
    IF ~file.parses THEN <<>>
    ELSE IF file.written_in = lang THEN file.tree
    ELSE FileRoot(lang)

\* result.file_path = file_path
WithFilePath(rs, file_path) ==
    [i \in 1..Len(rs) |-> [file_path |-> file_path] @@ rs[i]]

\* Analyzer::analyze_content on a file's content
analyze_content(fac, file, lang, threshold) ==
    IF lang \notin {"cpp", "python"} THEN <<>>
    ELSE LET t == ts_parser_parse_string(file, lang)
         IN  IF t = <<>> THEN <<>>
             ELSE IF create_parser(fac, lang).ret = 0 THEN <<>>
             ELSE WithFilePath(
                     analyze_functions(t, lang, parse_functions(t, lang), 1,
                                       threshold, <<>>),
                     file.path)

\* the try block of analyze_file, lines 103-121: read_file_content throws
\* when the file cannot be opened
analyze_file_body(fac, file, lang_, threshold) ==
    IF ~file.readable THEN [results |-> <<>>, raised |-> TRUE]
    ELSE IF file.tree = <<>> THEN [results |-> <<>>, raised |-> FALSE]
    ELSE LET lang == IF lang_ = "" THEN detect_language(fac, file.path)
                     ELSE lang_
         IN  IF lang = "" THEN [results |-> <<>>, raised |-> FALSE]
             ELSE [results |-> analyze_content(fac, file, lang, threshold),
                   raised |-> FALSE]

analyze_file_NoCatch(fac, file, lang_, threshold) ==
    analyze_file_body(fac, file, lang_, threshold)

\* Analyzer::analyze_file: the catch of lines 122-125 turns an exception
\* into an empty result
analyze_file(fac, file, lang_, threshold) ==
    LET r == analyze_file_body(fac, file, lang_, threshold)
    IN  IF r.raised THEN [results |-> <<>>, raised |-> FALSE] ELSE r

\* the listings of a directory: up to MaxFiles different files
Listings ==
    {l \in UNION {[1..n -> FileKinds] : n \in 0..MaxFiles} :
        \A i, j \in DOMAIN l : l[i] = l[j] => i = j}

BatInit ==
    /\ listing \in Listings
    /\ AnalyzerInit
    /\ FactoryInit
    /\ tree = <<>>
    /\ root_node = NullNode
    /\ mode = "idle"
    /\ stack = <<>>
    /\ result = EmptyResult
    /\ returned = "none"
    /\ earlier = <<>>
    /\ language = ""
    /\ complexity_threshold_ = 0
    /\ amode = "idle"
    /\ functions = <<>>
    /\ file_results = <<>>

\* main, lines 122-155: construct the Analyzer (which registers the two
\* extractors), configure it from the options, look at the input path
Main ==
    /\ bmode = "start"
    /\ SetFactory(register_parser(register_parser(Factory, CppParser),
                                  PythonParser))
    /\ last_call' = [op |-> "Analyzer", arg |-> <<>>, ret |-> 0]
    /\ complexity_threshold_' \in {0, MaxThreshold}
    /\ language_' \in {"", "python", "rust"}
    /\ ignore_patterns_' \in {{}, {PyPattern, GlobPattern}}
    /\ \E kind \in {"file", "directory", "git_repository",
                    "unlistable_directory", "invalid"} :
          /\ kind = "file" => Len(listing) = 1
          /\ input' = [input EXCEPT !.kind = kind]
    /\ bmode' = "configured"
    /\ UNCHANGED <<tree, calcVars, language, amode, functions, file_results,
                   listing, next_file, batch_results, last_analysis,
                   exit_status>>

RecordAnalysis(file, r) ==
    last_analysis' = [n |-> last_analysis.n + 1, file |-> file,
                      results |-> r.results, raised |-> r.raised]

\* main, lines 157-162: the input is a regular file
AnalyzeInputFile ==
    /\ bmode = "configured"
    /\ input.kind = "file"
    /\ LET r == analyze_file(Factory, listing[1], language_,
                             complexity_threshold_)
       IN  /\ RecordAnalysis(listing[1], r)
           /\ batch_results' = r.results
           /\ IF r.raised
              THEN bmode' = "exited" /\ exit_status' = 1
              ELSE bmode' = "analysed" /\ UNCHANGED exit_status
    /\ UNCHANGED <<tree, calcVars, anVars, facVars, language_,
                   ignore_patterns_, input, listing, next_file>>

\* analyze_directory / analyze_git_repository up to the loop: the listing
\* succeeded
BeginDirectory ==
    /\ bmode = "configured"
    /\ input.kind \in {"directory", "git_repository"}
    /\ bmode' = "loop"
    /\ next_file' = 1
    /\ batch_results' = <<>>
    /\ UNCHANGED <<tree, calcVars, anVars, facVars, language_,
                   ignore_patterns_, input, listing, last_analysis,
                   exit_status>>

\* list_files throws: caught at lines 143-145, the empty vector is returned
ListingFails ==
    /\ bmode = "configured"
    /\ input.kind = "unlistable_directory"
    /\ bmode' = "analysed"
    /\ batch_results' = <<>>
    /\ UNCHANGED <<tree, calcVars, anVars, facVars, language_,
                   ignore_patterns_, input, listing, next_file,
                   last_analysis, exit_status>>

\* one iteration of the loop over the listed files, lines 137-142
AnalyzeListedFile ==
    /\ bmode = "loop"
    /\ next_file <= Len(listing)
    /\ LET file == listing[next_file]
           r == analyze_file(Factory, file, language_, complexity_threshold_)
       IN  IF should_analyze_file(Factory, ignore_patterns_, file.path)
           THEN /\ RecordAnalysis(file, r)
                /\ IF r.raised
                   THEN /\ bmode' = "analysed"
                        /\ UNCHANGED <<batch_results, next_file>>
                   ELSE /\ batch_results' = batch_results \o r.results
                        /\ next_file' = next_file + 1
                        /\ UNCHANGED bmode
           ELSE /\ next_file' = next_file + 1
                /\ UNCHANGED <<bmode, batch_results, last_analysis>>
    /\ UNCHANGED <<tree, calcVars, anVars, facVars, language_,
                   ignore_patterns_, input, listing, exit_status>>

EndDirectory ==
    /\ bmode = "loop"
    /\ next_file > Len(listing)
    /\ bmode' = "analysed"
    /\ UNCHANGED <<tree, calcVars, anVars, facVars, language_,
                   ignore_patterns_, input, listing, next_file,
                   batch_results, last_analysis, exit_status>>

\* main, lines 177-180
InvalidPath ==
    /\ bmode = "configured"
    /\ input.kind = "invalid"
    /\ bmode' = "exited"
    /\ exit_status' = 1
    /\ UNCHANGED <<tree, calcVars, anVars, facVars, language_,
                   ignore_patterns_, input, listing, next_file,
                   batch_results, last_analysis>>

\* main, lines 182-196: print the results and return
Output ==
    /\ bmode = "analysed"
    /\ \E format \in {"text", "json", "toml"} :
          /\ input' = [input EXCEPT !.format = format]
          /\ exit_status' = IF format = "toml" THEN 1 ELSE 0
    /\ bmode' = "exited"
    /\ UNCHANGED <<tree, calcVars, anVars, facVars, language_,
                   ignore_patterns_, listing, next_file, batch_results,
                   last_analysis>>

BatNext ==
    \/ Main
    \/ AnalyzeInputFile
    \/ BeginDirectory
    \/ ListingFails
    \/ AnalyzeListedFile
    \/ EndDirectory
    \/ InvalidPath
    \/ Output

SpecBatch == BatInit /\ [][BatNext]_vars

(***************************************************************************)
(* Properties of the calculator.                                           *)
(***************************************************************************)
RECURSIVE SumIncrements(_)
SumIncrements(fs) ==
    IF fs = <<>> THEN 0 ELSE fs[1].increment + SumIncrements(Tail(fs))

ScoringFunction ==
    /\ mode = "done"
    /\ ~ts_node_is_null(root_node)
    /\ tree[root_node].type = "function_definition"
    /\ ~ts_node_is_null(body_node_of(tree, root_node))

\* the nodes of the body of the scored function
BodyNodes == Subtree(tree, body_node_of(tree, root_node))

\* body nodes that do not lie in (and are not) a nested function definition
OwnNodes ==
    {n \in BodyNodes :
        \A a \in (Ancestors(tree, n) \cup {n}) \cap BodyNodes :
            tree[a].type # "function_definition"}

FactorsAtLine(fs, ln) ==
    LET AtLine(f) == f.line_number = ln IN SelectSeq(fs, AtLine)

\* C1: total_complexity equals the sum of the increments of the factor list,
\* in the returned result and after every increment step of the traversal.
C1_TotalIsSumOfIncrements ==
    /\ result.total_complexity = SumIncrements(result.factors)
    /\ mode = "done" => returned.total_complexity = SumIncrements(returned.factors)

C1_Witness ==
    /\ mode = "running"
    /\ \E k \in 1..Len(result.factors) :
          /\ result.factors[k].increment = 2
          /\ k < Len(result.factors)

\* C2: every return of analyze_control_flow leaves nesting_level at the value
\* it had when the call was made; it is 0 when the traversal of a body starts
\* and 0 in the result that calculate returns.
C2_NestingLevelRestored ==
    /\ [][Len(stack') < Len(stack)
            => result'.nesting_level = Top(stack).entry_level]_vars
    /\ []((mode = "running" /\ Len(stack) = 1 /\ Top(stack).pc = "enter")
            => result.nesting_level = 0)
    /\ [](mode = "done" => returned.nesting_level = 0)

C2_Witness ==
    /\ ScoringFunction
    /\ returned.nesting_level = 0
    /\ \E k \in 1..Len(returned.factors) :
          returned.factors[k].description = "Nested if_statement"
    /\ \E n \in BodyNodes : tree[n].type = "function_definition"

\* C3: a non-chained nesting construct inside d enclosing nesting constructs
\* contributes one structural factor of 1 and, when d > 0, one nesting factor
\* of d; a bare if scores 1, an if inside a for 3, countVowels 7, main 0.
C3_NestingConstructs ==
    {"if_statement", "for_statement", "for_range_loop", "while_statement",
     "do_statement", "catch_clause"}

C3_Chained(n) ==
    /\ tree[n].type = "if_statement"
    /\ tree[ts_node_parent(tree, n)].type \in {"else_clause", "elif_clause"}

C3_Depth(n) ==
    Cardinality({a \in Ancestors(tree, n) \cap BodyNodes :
                    tree[a].type \in C3_NestingConstructs})

C3_Expected(n) ==
    LET ty == tree[n].type
        ln == tree[n].row + 1
        structural == [description |-> ty, increment |-> 1, line_number |-> ln]
        nesting == [description |-> "Nested " \o ty, increment |-> C3_Depth(n),
                    line_number |-> ln]
    IN  IF C3_Depth(n) = 0 THEN <<structural>> ELSE <<structural, nesting>>

C3_NestingConstructScores ==
    ScoringFunction =>
        /\ \A n \in OwnNodes :
              (tree[n].type \in C3_NestingConstructs /\ ~C3_Chained(n))
                 => FactorsAtLine(returned.factors, tree[n].row + 1) = C3_Expected(n)
        /\ tree = TreeOf(<< <<"function_definition", 0>>, <<"compound_statement", 1>>,
                            <<"if_statement", 2>> >>)
              => returned.total_complexity = 1
        /\ tree = TreeOf(<< <<"function_definition", 0>>, <<"compound_statement", 1>>,
                            <<"for_statement", 2>>, <<"if_statement", 3>> >>)
              => returned.total_complexity = 3
        /\ tree = CountVowelsTree => returned.total_complexity = 7
        /\ tree = MainTree => returned.total_complexity = 0

C3_Witness ==
    /\ ScoringFunction
    /\ tree = CountVowelsTree
    /\ returned.total_complexity = 7
    /\ Len(returned.factors) = 6

\* C4: a function whose body is one if / else-if / else chain of three
\* branches, the else-if under the else clause of the first conditional,
\* scores exactly 3.
C4_ChainScoresThree ==
    (ScoringFunction /\ tree = ElseIfChainTree /\ root_node = 1)
        => returned.total_complexity = 3

\* C8: a function whose body contains no control structure scores 0 and has
\* an empty factor list.
C8_ControlStructures ==
    {"if_statement", "for_statement", "for_range_loop", "while_statement",
     "do_statement", "catch_clause", "case_statement", "else_clause",
     "elif_clause"}

C8_NoControlStructureScoresZero ==
    (ScoringFunction
        /\ \A n \in BodyNodes : tree[n].type \notin C8_ControlStructures)
    => (returned.total_complexity = 0 /\ returned.factors = <<>>)

C8_Witness ==
    /\ ScoringFunction
    /\ tree = MainTree
    /\ returned.factors = <<>>

\* C21: a conditional whose immediate parent is an else or elif clause
\* contributes exactly one factor, the hybrid "else-if chain" factor of 1, at
\* every depth; every other control structure contributes its structural
\* factor first and no hybrid factor.
C21_Hybrid(ln) ==
    [description |-> "else-if chain", increment |-> 1, line_number |-> ln]

C21_ChainedConditionalIsHybrid ==
    ScoringFunction =>
        \A n \in OwnNodes :
            tree[n].type \in C8_ControlStructures =>
                LET ln == tree[n].row + 1
                    fs == FactorsAtLine(returned.factors, ln)
                IN  IF C3_Chained(n)
                    THEN fs = <<C21_Hybrid(ln)>>
                    ELSE /\ Len(fs) >= 1
                         /\ fs[1] = [description |-> tree[n].type,
                                     increment |-> 1, line_number |-> ln]
                         /\ \A k \in 1..Len(fs) : fs[k] # C21_Hybrid(ln)

C21_Witness ==
    /\ ScoringFunction
    /\ tree = ElifTree
    /\ FactorsAtLine(returned.factors, 6) = <<C21_Hybrid(6)>>
    /\ FactorsAtLine(returned.factors, 8) = <<C21_Hybrid(8)>>
    /\ Len(FactorsAtLine(returned.factors, 3)) = 1
    /\ Len(FactorsAtLine(returned.factors, 4)) = 2

\* C22: a switch statement is a control structure and a nesting construct:
\* a top-level switch contributes one structural factor of 1 and a
\* conditional directly inside one of its cases receives a nesting factor
\* of 1.
C22_SwitchIsNestingConstruct ==
    (ScoringFunction /\ tree = SwitchTree /\ root_node = 1) =>
        /\ FactorsAtLine(returned.factors, 3) =
              <<[description |-> "switch_statement", increment |-> 1,
                 line_number |-> 3]>>
        /\ FactorsAtLine(returned.factors, 6) =
              <<[description |-> "if_statement", increment |-> 1,
                 line_number |-> 6],
                [description |-> "Nested if_statement", increment |-> 1,
                 line_number |-> 6]>>

\* C23: an else, elif or case clause contributes exactly one structural
\* factor of 1 and no nesting factor, at any depth, and the nodes directly
\* inside it are entered at the nesting level the clause was entered at.
C23_Clauses == {"else_clause", "elif_clause", "case_statement"}

C23_ClausesAreStructuralOnly ==
    /\ ScoringFunction =>
          \A n \in OwnNodes :
              tree[n].type \in C23_Clauses =>
                  FactorsAtLine(returned.factors, tree[n].row + 1) =
                      <<[description |-> tree[n].type, increment |-> 1,
                         line_number |-> tree[n].row + 1]>>
    /\ mode = "running" =>
          \A k \in 1..(Len(stack) - 1) :
              (/\ ~ts_node_is_null(stack[k].node)
               /\ tree[stack[k].node].type \in C23_Clauses)
                 => stack[k + 1].entry_level = stack[k].entry_level

C23_Witness ==
    /\ mode = "running"
    /\ tree = ElifTree
    /\ Len(stack) >= 2
    /\ tree[stack[Len(stack) - 1].node].type = "elif_clause"
    /\ stack[Len(stack)].entry_level = 2
    /\ result.nesting_level = 2
    /\ FactorsAtLine(result.factors, 5) =
          <<[description |-> "elif_clause", increment |-> 1, line_number |-> 5]>>

\* C25: the factor list is in pre-order document order: a running call only
\* appends to it, every factor carries the 1-based start line of the control
\* structure that caused it, the line numbers never decrease, and the
\* nesting factor of a nested construct directly follows the structural
\* factor of the same construct on the same line.
C25_IsPrefix(fs, gs) ==
    /\ Len(fs) <= Len(gs)
    /\ SubSeq(gs, 1, Len(fs)) = fs

C25_Trigger(f) ==
    {n \in OwnNodes :
        /\ tree[n].row + 1 = f.line_number
        /\ tree[n].type \in C8_ControlStructures
        /\ f.description \in {tree[n].type, "Nested " \o tree[n].type,
                              "else-if chain"}}

C25_Ordered(fs) ==
    /\ \A k \in 1..Len(fs) : C25_Trigger(fs[k]) # {}
    /\ \A k \in 1..(Len(fs) - 1) : fs[k].line_number <= fs[k + 1].line_number
    /\ \A k \in 1..Len(fs) :
          \A ty \in C3_NestingConstructs :
              fs[k].description = "Nested " \o ty =>
                  /\ k > 1
                  /\ fs[k - 1] = [description |-> ty, increment |-> 1,
                                  line_number |-> fs[k].line_number]

C25_FactorsInDocumentOrder ==
    /\ [][mode = "running" => C25_IsPrefix(result.factors, result.factors')]_vars
    /\ [](ScoringFunction => C25_Ordered(returned.factors))
    /\ []((mode = "running" /\ tree[root_node].type = "function_definition")
             => C25_Ordered(result.factors))

C25_Witness ==
    /\ ScoringFunction
    /\ tree = CountVowelsTree
    /\ Len(returned.factors) = 6
    /\ returned.factors[2].line_number = returned.factors[3].line_number
    /\ returned.factors[3].description = "Nested for_range_loop"
    /\ returned.factors[3].line_number < returned.factors[4].line_number

\* C28: logical operators never change the score: the result for a body
\* is the result for the same body with every binary expression replaced by
\* a plain operand, and the result for the same body with every plain
\* statement or expression replaced by a binary expression.
C28_PlainTypes ==
    {"declaration", "return_statement", "expression_statement",
     "call_expression", "break_statement", "identifier"}

C28_WithoutOperators(t) ==
    [i \in 1..Len(t) |->
        IF t[i].type = "binary_expression"
        THEN [t[i] EXCEPT !.type = "identifier"] ELSE t[i]]

C28_WithOperators(t) ==
    [i \in 1..Len(t) |->
        IF t[i].type \in C28_PlainTypes
        THEN [t[i] EXCEPT !.type = "binary_expression"] ELSE t[i]]

C28_OperatorsNeverScore ==
    ScoringFunction =>
        /\ returned = calculate(C28_WithoutOperators(tree), root_node)
        /\ returned = calculate(C28_WithOperators(tree), root_node)
        /\ \A k \in 1..Len(returned.factors) :
              \A n \in BodyNodes :
                  returned.factors[k].line_number = tree[n].row + 1
                      => tree[n].type # "binary_expression"

C28_Witness ==
    /\ ScoringFunction
    /\ tree = CountVowelsTree
    /\ C28_WithoutOperators(tree) # tree
    /\ C28_WithOperators(tree) # tree
    /\ returned.total_complexity = 7
    /\ calculate(C28_WithOperators(tree), root_node).total_complexity = 7

\* C29: a chained else-if conditional raises the nesting level for its
\* contents although it receives no nesting factor itself: a nesting
\* construct directly inside the body of the k-th else-if of a chain gets a
\* nesting factor k greater than the one a nesting construct directly
\* inside the body of the leading conditional gets.
RECURSIVE C29_Leading(_)
C29_Leading(e) ==
    IF C3_Chained(e)
    THEN C29_Leading(ts_node_parent(tree, ts_node_parent(tree, e)))
    ELSE e

RECURSIVE C29_Index(_)
C29_Index(e) ==
    IF C3_Chained(e)
    THEN 1 + C29_Index(ts_node_parent(tree, ts_node_parent(tree, e)))
    ELSE 0

C29_Nesting(n) ==
    {a \in Ancestors(tree, n) \cap BodyNodes :
        tree[a].type \in C3_NestingConstructs}

C29_Enclosing(n) ==
    CHOOSE a \in C29_Nesting(n) : \A b \in C29_Nesting(n) : b <= a

\* nesting constructs, not chained themselves, directly inside construct e
C29_Inside(e) ==
    {n \in OwnNodes :
        /\ tree[n].type \in C3_NestingConstructs
        /\ ~C3_Chained(n)
        /\ C29_Nesting(n) # {}
        /\ C29_Enclosing(n) = e}

C29_NestingIncrement(n) ==
    FactorsAtLine(returned.factors, tree[n].row + 1)[2].increment

C29_ElseIfRaisesNesting ==
    ScoringFunction =>
        \A e \in OwnNodes :
            C3_Chained(e) =>
                /\ \A k \in 1..Len(returned.factors) :
                      returned.factors[k].line_number = tree[e].row + 1
                          => returned.factors[k].description # "Nested if_statement"
                /\ \A n \in C29_Inside(e) :
                      /\ C29_NestingIncrement(n) =
                            C3_Depth(C29_Leading(e)) + 1 + C29_Index(e)
                      /\ \A m \in C29_Inside(C29_Leading(e)) :
                            C29_NestingIncrement(n) =
                                C29_NestingIncrement(m) + C29_Index(e)

C29_Witness ==
    /\ ScoringFunction
    /\ tree = ElseIfBodiesTree
    /\ C29_Inside(3) = {5}
    /\ C29_Inside(7) = {9} /\ C29_Index(7) = 1
    /\ C29_Inside(11) = {13} /\ C29_Index(11) = 2
    /\ C29_NestingIncrement(5) = 1
    /\ C29_NestingIncrement(9) = 2
    /\ C29_NestingIncrement(13) = 3

\* C27: calculate is re-entrant and deterministic: every running call
\* starts from total 0, nesting level 0 and an empty factor list, the result
\* returned for a node is the one returned for that node by every earlier
\* call on the same object and depends on the node only, and a later call
\* never changes a result that was returned before.
C27_Fresh ==
    [total_complexity |-> 0, nesting_level |-> 0, factors |-> <<>>]

C27_Reentrant ==
    /\ [][(mode = "idle" /\ mode' = "running") => result' = C27_Fresh]_vars
    /\ [][(mode = "idle" /\ mode' = "done") => returned' = C27_Fresh]_vars
    /\ [][C25_IsPrefix(earlier, earlier')]_vars
    /\ [](mode = "done" =>
            /\ returned = calculate(tree, root_node)
            /\ \A k \in 1..Len(earlier) :
                  /\ earlier[k].returned = calculate(tree, earlier[k].root_node)
                  /\ earlier[k].root_node = root_node
                        => earlier[k].returned = returned)

C27_Witness ==
    /\ mode = "done"
    /\ tree = CountVowelsTree
    /\ Len(earlier) = 2
    /\ earlier[1].root_node = 1
    /\ earlier[2].root_node = NullNode
    /\ earlier[2].returned = C27_Fresh
    /\ root_node = 1
    /\ returned = earlier[1].returned
    /\ returned.total_complexity = 7

(***************************************************************************)
(* Properties of the analyzer.                                             *)
(***************************************************************************)
FunctionDefinitions ==
    {n \in 1..Len(tree) : tree[n].type = "function_definition"}

\* the definition a unit or a result with this start line was made from
DefinitionAtLine(ln) ==
    CHOOSE n \in FunctionDefinitions : tree[n].row + 1 = ln

\* the extractor of the file's language can resolve a name for definition n
HasResolvableName(n) ==
    IF language = "cpp"
    THEN \E k \in 1..Len(tree[n].declarator) :
            tree[n].declarator[k] = "identifier"
    ELSE tree[n].name # ""

\* C5: scoring an outer function yields no factor for a node of a nested
\* definition, and the file's analysis contains a separate result for the
\* nested function, scored from its own body starting at nesting level 0.
C5_NestedFunctionScoredSeparately ==
    (amode = "done" /\ complexity_threshold_ = 0) =>
        \A n \in FunctionDefinitions :
            (is_nested(tree, n) /\ HasResolvableName(n)) =>
                /\ \A o \in Ancestors(tree, n) \cap FunctionDefinitions :
                      \A k \in 1..Len(calculate(tree, o).factors) :
                          \A j \in Subtree(tree, n) :
                              calculate(tree, o).factors[k].line_number
                                  # tree[j].row + 1
                /\ \E k \in 1..Len(file_results) :
                      /\ file_results[k].start_line = tree[n].row + 1
                      /\ file_results[k].complexity
                            = calculate(tree, n).total_complexity
                      /\ file_results[k].factors = calculate(tree, n).factors

\* C6: the results analyze_content retains are exactly the scored functions
\* whose complexity >= the threshold, in order, with complexity and factors
\* that do not depend on the threshold.
C6_IsScored(k) ==
    /\ functions[k].name # ""
    /\ ~ts_node_is_null(find_function_node(tree, 1, functions[k].name))

C6_Score(k) ==
    calculate(tree, find_function_node(tree, 1, functions[k].name))

RECURSIVE C6_Retained(_)
C6_Retained(k) ==
    IF k > Len(functions) THEN <<>>
    ELSE IF C6_IsScored(k)
            /\ C6_Score(k).total_complexity >= complexity_threshold_
         THEN <<AnalysisResult(language, functions[k], C6_Score(k))>>
              \o C6_Retained(k + 1)
         ELSE C6_Retained(k + 1)

C7_EverythingReported ==
    (amode = "done" /\ complexity_threshold_ = 0) =>
        /\ Len(file_results) = Len(functions)
        /\ \A k \in 1..Len(functions) :
              k <= Len(file_results) =>
                 /\ file_results[k].function_name = functions[k].name
                 /\ file_results[k].start_line = functions[k].start_line

\* C9: the complexity and factors of a result are those the calculator
\* produces for the definition at the result's own start line, also when
\* several units of the file share a name.
C9_ScoresOwnDefinition ==
    amode = "done" =>
        \A k \in 1..Len(file_results) :
            LET own == calculate(tree, DefinitionAtLine(file_results[k].start_line))
            IN  /\ file_results[k].complexity = own.total_complexity
                /\ file_results[k].factors = own.factors

C10_OwnName(n) ==
    IF tree[n].declarator = <<>> THEN tree[n].name
    ELSE IF \E k \in 1..Len(tree[n].declarator) :
                tree[n].declarator[k] = "destructor_name"
         THEN "~" \o tree[n].name
         ELSE tree[n].name

RECURSIVE C10_Chain(_)
C10_Chain(n) ==
    LET p == ts_node_parent(tree, n)
    IN  IF language = "cpp" \/ ts_node_is_null(p) THEN <<>>
        ELSE IF tree[p].type = "function_definition" /\ tree[p].name # ""
             THEN Append(C10_Chain(p), tree[p].name)
             ELSE C10_Chain(p)

C11_EachDefinitionYieldedOnce ==
    amode = "done" =>
        /\ \A i, j \in 1..Len(functions) :
              functions[i].node = functions[j].node => i = j
        /\ \A i \in 1..Len(functions) :
              /\ tree[functions[i].node].type = "function_definition"
              /\ functions[i].start_line = tree[functions[i].node].row + 1
              /\ functions[i].end_line = end_line_of(tree, functions[i].node)

\* C12: for both extractors the walk continues into the body of a definition
\* it has recorded: every named function definition nested in another
\* function is yielded as its own unit, and every yielded unit keeps the
\* line span of its own definition.
C12_NestedDefinitionsYielded ==
    amode = "done" =>
        /\ \A n \in FunctionDefinitions :
              (is_nested(tree, n) /\ HasResolvableName(n)) =>
                  \E i \in 1..Len(functions) : functions[i].node = n
        /\ \A i \in 1..Len(functions) :
              /\ functions[i].start_line = tree[functions[i].node].row + 1
              /\ functions[i].end_line = end_line_of(tree, functions[i].node)

\* C24: the indentation-based extractor names a function enclosed by the
\* functions f1 (outermost) .. fk (innermost) f1. ... .fk.name; a function
\* with no enclosing function keeps its plain name; find_function_node
\* rebuilds the same name for the definition, so the lookup by that name
\* ends at a definition that carries it.
RECURSIVE C24_EnclosingNames(_, _)
C24_EnclosingNames(n, a) ==
    IF a >= n THEN <<>>
    ELSE IF /\ a \in Ancestors(tree, n)
            /\ tree[a].type = "function_definition"
            /\ tree[a].name # ""
         THEN <<tree[a].name>> \o C24_EnclosingNames(n, a + 1)
         ELSE C24_EnclosingNames(n, a + 1)

RECURSIVE C24_Dotted(_, _)
C24_Dotted(names, nm) ==
    IF names = <<>> THEN nm
    ELSE Head(names) \o "." \o C24_Dotted(Tail(names), nm)

C24_QualifiedName(n) == C24_Dotted(C24_EnclosingNames(n, 1), tree[n].name)

C24_NestedNamesOuterToInner ==
    (amode = "done" /\ language = "python") =>
        \A i \in 1..Len(functions) :
            LET n == functions[i].node
                found == find_function_node(tree, 1, functions[i].name)
            IN  /\ functions[i].name = C24_QualifiedName(n)
                /\ C24_EnclosingNames(n, 1) = <<>>
                      => functions[i].name = tree[n].name
                /\ full_name(tree, ts_node_parent(tree, n), name_field(tree, n))
                      = functions[i].name
                /\ ~ts_node_is_null(found)
                /\ C24_QualifiedName(found) = functions[i].name

C24_Witness ==
    /\ amode = "done"
    /\ language = "python"
    /\ tree = NestedPyFile
    /\ Len(functions) = 4
    /\ functions[1].name = "f"
    /\ functions[2].name = "f.g"
    /\ functions[3].name = "f.g.f"
    /\ functions[4].name = "g"
    /\ find_function_node(tree, 1, "f.g.f") = functions[3].node
    /\ find_function_node(tree, 1, "g") = functions[4].node

\* C26: a C-family function definition whose declarator chain has no
\* resolvable identifier yields no unit, the extraction still completes, and
\* every other function definition of the file, before and after it, is
\* yielded.
C26_Unresolvable ==
    {n \in FunctionDefinitions : ~HasResolvableName(n)}

C26_OnlyMalformedCandidateSkipped ==
    (amode = "done" /\ language = "cpp" /\ C26_Unresolvable # {}) =>
        /\ \A n \in C26_Unresolvable :
              \A i \in 1..Len(functions) : functions[i].node # n
        /\ \A m \in FunctionDefinitions \ C26_Unresolvable :
              \E i \in 1..Len(functions) : functions[i].node = m

(***************************************************************************)
(* Properties of the parser registry.                                      *)
(***************************************************************************)
\* what the last call returned: the language the instance reports, "none"
\* for nullptr
ReturnedLanguage ==
    IF last_call.ret = 0 THEN "none"
    ELSE objects[last_call.ret].language_name

RegisteredIds == {i \in 1..Len(objects) : objects[i].registered}

\* the registrations so far are those of the Analyzer constructor
C13_AnalyzerRegistered ==
    /\ \E i \in RegisteredIds : objects[i].class = "CppParser"
    /\ \E i \in RegisteredIds : objects[i].class = "PythonParser"
    /\ \A i \in RegisteredIds :
          objects[i].class \in {"CppParser", "PythonParser"}

C13_Expected ==
    [x \in {<<"a", ".", "p", "y">>, <<"d", "/", "b", ".", "a", ".", "p", "y">>}
        |-> "python"]
    @@ [x \in {<<"a", ".", "h", "p", "p">>, <<"a", ".", "c", "p", "p">>,
               <<"a", ".", "c", "x", "x">>, <<"a", ".", "c", "c">>,
               <<"a", ".", "h", "x", "x">>, <<"a", ".", "h">>} |-> "cpp"]
    @@ [x \in {<<"a", ".", "r", "s">>} |-> "none"]

\* C13: once the Analyzer has registered its extractors, a path with
\* extension .py resolves to the Python extractor, one with .hpp, .cpp, .cxx,
\* .cc, .hxx or .h to the C++ extractor, and one with .rs to none.
C13_ExtensionResolution ==
    (/\ last_call.op = "create_parser_for_file"
     /\ C13_AnalyzerRegistered
     /\ last_call.arg \in DOMAIN C13_Expected) =>
        /\ ReturnedLanguage = C13_Expected[last_call.arg]
        /\ last_call.ret # 0 =>
              objects[last_call.ret].class =
                  (IF ReturnedLanguage = "python" THEN "PythonParser"
                   ELSE "CppParser")

C13_Witness ==
    /\ last_call.op = "create_parser_for_file"
    /\ C13_AnalyzerRegistered
    /\ last_call.arg = <<"a", ".", "h", "p", "p">>
    /\ ReturnedLanguage = "cpp"

C14_LowerChar(c) ==
    CASE c = "F" -> "f" [] c = "P" -> "p" [] c = "Y" -> "y" [] c = "H" -> "h"
      [] OTHER -> c

C14_Lower(path) == [i \in 1..Len(path) |-> C14_LowerChar(path[i])]

C14_Resolved(path) ==
    LET c == create_parser_for_file(Factory, path)
    IN  IF c.ret = 0 THEN "none" ELSE c.objects[c.ret].language_name

\* C14: the extension is lowercased before the lookup: a path whose
\* extension differs from a registered extension only in letter case
\* resolves to the same language as the path with the registered extension.
C14_CaseInsensitiveResolution ==
    (/\ last_call.op = "create_parser_for_file"
     /\ C14_Resolved(C14_Lower(last_call.arg)) # "none") =>
        ReturnedLanguage = C14_Resolved(C14_Lower(last_call.arg))

AllExtensions ==
    UNION {o.extensions : o \in {CppParser, PythonParser} \cup OtherParsers}

C15_Max(S) == CHOOSE m \in S : \A x \in S : x <= m

C15_Claimers(ext) == {i \in RegisteredIds : ext \in objects[i].extensions}

C15_Holders(lang) == {i \in RegisteredIds : objects[i].language_name = lang}

\* C15: after any sequence of register calls every extension resolves to
\* the language of the most recent registration that claimed it, and every
\* language id holds the prototype most recently registered under it.
C15_LastRegistrationWins ==
    /\ DOMAIN extensions_ \subseteq AllExtensions
    /\ \A ext \in AllExtensions :
          IF C15_Claimers(ext) = {} THEN ext \notin DOMAIN extensions_
          ELSE /\ ext \in DOMAIN extensions_
               /\ extensions_[ext] =
                     objects[C15_Max(C15_Claimers(ext))].language_name
    /\ \A lang \in LanguageIds :
          IF C15_Holders(lang) = {} THEN lang \notin DOMAIN parsers_
          ELSE /\ lang \in DOMAIN parsers_
               /\ parsers_[lang] = C15_Max(C15_Holders(lang))

C15_Witness ==
    /\ <<"h">> \in DOMAIN extensions_
    /\ extensions_[<<"h">>] = "c"
    /\ \E i \in C15_Claimers(<<"h">>) : objects[i].language_name = "cpp"
    /\ Cardinality(C15_Holders("c")) = 2

\* no registered extension is a dotted suffix of the path
C16_Unmapped(path) ==
    ~\E e \in DOMAIN extensions_ :
        /\ Len(path) > Len(e)
        /\ SubSeq(path, Len(path) - Len(e), Len(path)) = <<".">> \o e

\* C16: create_parser with an id that was never registered and
\* create_parser_for_file with a path whose extension is unmapped or absent
\* return nullptr and leave both maps (and the stored objects) unchanged.
C16_AbsenceIsNone ==
    [][(\/ /\ last_call'.op = "create_parser"
           /\ last_call'.arg \notin DOMAIN parsers_
        \/ /\ last_call'.op = "create_parser_for_file"
           /\ C16_Unmapped(last_call'.arg)) =>
            /\ last_call'.ret = 0
            /\ parsers_' = parsers_
            /\ extensions_' = extensions_
            /\ objects' = objects]_vars

C16_Witness ==
    /\ last_call.op = "create_parser_for_file"
    /\ last_call.arg = <<"a", ".", "r", "s">>
    /\ last_call.ret = 0
    /\ "cpp" \in DOMAIN parsers_
    /\ "rust" \notin DOMAIN parsers_

\* C17: a successful create call returns a new instance cloned from the
\* stored prototype: distinct from the prototype and from every object that
\* existed before, reporting the prototype's language id; the maps and the
\* earlier objects stay as they were.
C17_FreshClone ==
    [][(/\ last_call'.op \in {"create_parser", "create_parser_for_file"}
        /\ last_call'.ret # 0) =>
            /\ last_call'.ret = Len(objects) + 1
            /\ Len(objects') = Len(objects) + 1
            /\ SubSeq(objects', 1, Len(objects)) = objects
            /\ \A l \in DOMAIN parsers_' : parsers_'[l] # last_call'.ret
            /\ \E l \in DOMAIN parsers_ :
                  /\ objects'[last_call'.ret] = clone(objects[parsers_[l]])
                  /\ objects'[last_call'.ret].language_name = l
                  /\ last_call'.op = "create_parser" => l = last_call'.arg
            /\ parsers_' = parsers_
            /\ extensions_' = extensions_]_vars

C17_Witness ==
    /\ last_call.op = "create_parser_for_file"
    /\ last_call.ret # 0
    /\ \E i \in 1..(last_call.ret - 1) : ~objects[i].registered
    /\ ReturnedLanguage = "python"

\* C30: registrations never remove a language or an extension: every
\* extension of the extension map names a language that holds a prototype,
\* every extension any registered extractor claimed is still mapped, and
\* create_parser_for_file returns an extractor for every path whose
\* extension any registration so far claimed, also one claimed only by an
\* earlier prototype of a language registered again since.
C30_EverClaimed ==
    UNION {objects[i].extensions : i \in RegisteredIds}

\* the last component of the path is a non-empty stem, a period and e
C30_HasExtension(path, e) ==
    /\ Len(path) > Len(e) + 1
    /\ SubSeq(path, Len(path) - Len(e), Len(path)) = <<".">> \o e
    /\ path[Len(path) - Len(e) - 1] # "/"

C30_RegistryNeverShrinks ==
    /\ [][/\ DOMAIN extensions_ \subseteq DOMAIN extensions_'
          /\ DOMAIN parsers_ \subseteq DOMAIN parsers_']_vars
    /\ [](/\ \A e \in DOMAIN extensions_ :
                /\ extensions_[e] \in DOMAIN parsers_
                /\ parsers_[extensions_[e]] \in RegisteredIds
          /\ C30_EverClaimed \subseteq DOMAIN extensions_
          /\ \A i \in RegisteredIds :
                objects[i].language_name \in DOMAIN parsers_
          /\ (/\ last_call.op = "create_parser_for_file"
              /\ \E e \in C30_EverClaimed :
                    C30_HasExtension(last_call.arg, e))
                => /\ last_call.ret # 0
                   /\ objects[last_call.ret].language_name
                         \in DOMAIN parsers_)

C30_Witness ==
    /\ last_call.op = "create_parser_for_file"
    /\ last_call.arg = <<"a", ".", "p", "y">>
    /\ last_call.ret # 0
    /\ objects[last_call.ret].class = "StubParser"
    /\ objects[parsers_["python"]].class = "StubParser"
    /\ <<"p", "y">> \notin objects[parsers_["python"]].extensions
    /\ \E i \in RegisteredIds :
          /\ objects[i].class = "PythonParser"
          /\ i < parsers_["python"]

(***************************************************************************)
(* Properties of analyze_file, of the directory run and of main.           *)
(***************************************************************************)
\* the path ends in a period followed by a registered extension
HasRegisteredExtension(path) ==
    \E e \in DOMAIN extensions_ :
        /\ Len(path) > Len(e) + 1
        /\ SubSeq(path, Len(path) - Len(e), Len(path)) = <<".">> \o e
        /\ path[Len(path) - Len(e) - 1] # "/"

\* the language analyze_file resolves for a file: the explicit override,
\* else the one its extension is registered for ("" when there is none)
ResolvedLanguage(file) ==
    IF language_ # "" THEN language_
    ELSE IF HasRegisteredExtension(file.path)
         THEN extensions_[CHOOSE e \in DOMAIN extensions_ :
                 /\ Len(file.path) > Len(e)
                 /\ SubSeq(file.path, Len(file.path) - Len(e),
                           Len(file.path)) = <<".">> \o e]
         ELSE ""

C18_NothingToAnalyze(file) ==
    \/ file.tree = <<>>
    \/ ResolvedLanguage(file) = ""
    \/ ResolvedLanguage(file) \notin {"cpp", "python"}

\* C18: analyze_file returns an empty list without raising when the content
\* is empty, when no language is set and none can be inferred from the
\* extension, or when the resolved language is not supported; the analyzer's
\* configuration and the registry are as before, ready for the next file.
C18_EmptyWithoutRaising ==
    [][(/\ last_analysis'.n # last_analysis.n
        /\ C18_NothingToAnalyze(last_analysis'.file)) =>
            /\ last_analysis'.results = <<>>
            /\ ~last_analysis'.raised
            /\ bmode' \in {"loop", "analysed"}
            /\ language_' = language_
            /\ complexity_threshold_' = complexity_threshold_
            /\ ignore_patterns_' = ignore_patterns_
            /\ facVars' = facVars]_vars

C18_Witness ==
    /\ bmode = "analysed"
    /\ input.kind = "directory"
    /\ Len(listing) = 2
    /\ listing[1].tree = <<>>
    /\ last_analysis.n = 2
    /\ last_analysis.file = listing[2]
    /\ last_analysis.results # <<>>
    /\ batch_results = last_analysis.results

\* what a listed file contributes to the run
C19_PerFile(file) ==
    IF ~should_analyze_file(Factory, ignore_patterns_, file.path) THEN <<>>
    ELSE IF \/ ~file.readable
            \/ ~file.parses
            \/ C18_NothingToAnalyze(file)
         THEN <<>>
         ELSE LET lang == ResolvedLanguage(file)
                  t == ts_parser_parse_string(file, lang)
              IN  WithFilePath(
                      analyze_functions(t, lang, parse_functions(t, lang), 1,
                                        complexity_threshold_, <<>>),
                      file.path)

RECURSIVE C19_Concat(_, _)
C19_Concat(from, to) ==
    IF from > to THEN <<>>
    ELSE C19_PerFile(listing[from]) \o C19_Concat(from + 1, to)

\* C19: in a directory or repository run a failing file (unreadable, parse
\* failure, unsupported language) contributes an empty result and never
\* aborts the batch: the results are the concatenation, in listing order, of
\* the per-file results of every listed file that passes should_analyze_file.
C19_BatchContinues ==
    input.kind \in {"directory", "git_repository"} =>
        /\ bmode = "loop" =>
              /\ next_file <= Len(listing) + 1
              /\ batch_results = C19_Concat(1, next_file - 1)
        /\ bmode \in {"analysed", "exited"} =>
              batch_results = C19_Concat(1, Len(listing))

C19_Witness ==
    /\ bmode = "analysed"
    /\ input.kind = "directory"
    /\ Len(listing) = 3
    /\ ~listing[2].readable
    /\ should_analyze_file(Factory, ignore_patterns_, listing[2].path)
    /\ \E k \in 1..Len(batch_results) :
          batch_results[k].file_path = listing[1].path
    /\ \E k \in 1..Len(batch_results) :
          batch_results[k].file_path = listing[3].path

\* C20: the command exits with a non-zero status when the analysed file
\* contains a function whose complexity reaches the threshold, and with
\* status 0 when none does.
C20_ExitStatusReflectsThreshold ==
    (/\ bmode = "exited"
     /\ input.kind = "file"
     /\ input.format # "toml") =>
        (exit_status # 0 <=> batch_results # <<>>)

====
